---- MODULE Spec2Model ----
(***************************************************************************)
(* Maze-Game (src/main.py): the Maze class.  The grid of cells, the        *)
(* recursive-backtracking generator (_generate_maze) and the three solvers *)
(* (solve_bfs, solve_dfs, solve_astar), one action per loop iteration.     *)
(***************************************************************************)
EXTENDS Integers, Sequences, FiniteSets, TLC

\* ------------------------------------------------------------------ bounds
\* Largest width and height of a constructed (generated) maze.
MaxW == 3
MaxH == 3
\* How many non-positive values of width and of height are tried: 0, -1, ...
NegDims == 1
\* Hand-built wall configurations are drawn for every grid of at most this
\* many cells.
MaxCells == 9
\* Up to this many cells the hand-built configurations include the ones whose
\* walls differ on the two sides of a shared edge.
MaxAsymCells == 4
\* The largest number of cells of a maze on which the solvers' termination
\* is checked.
MaxFairCells == 6
\* The largest width, height and number of cells of a game's maze.
MaxGameW == 4
MaxGameH == 3
MaxGameCells == 6
\* The longest MazeGame.path: at this length the arrow keys are held back.
MaxPath == 10

\* --------------------------------------------------------------- variables
VARIABLES
    width, height,      \* Maze.width, Maze.height
    walls,              \* Cell.walls of every cell: [cell -> [Direction -> BOOLEAN]]
    visited,            \* Cell.visited of every cell
    is_start, is_end,   \* Cell.is_start, Cell.is_end of every cell
    start, end,         \* Maze.start, Maze.end
    stack,              \* _generate_maze: the local stack
    pc,                 \* "generate", "loop", "raised": where the constructor is;
                        \* "done": it returned; "hand": the walls were then set by hand
    solver,             \* the solver running now: "none", "bfs", "dfs", "astar"
    queue,              \* solve_bfs: queue of <<cell, path>>
    bfs_visited,        \* solve_bfs: visited
    dfs_stack,          \* solve_dfs: stack of <<cell, path>>
    dfs_visited,        \* solve_dfs: visited
    open_set,           \* solve_astar: the heap's entries <<f, cell>>
    came_from,          \* solve_astar: came_from
    g_score,            \* solve_astar: g_score
    f_score,            \* solve_astar: f_score
    returned,           \* the solvers that have returned since they were last called
    path,               \* [solver -> the path it returned]
    constructions,      \* how many Maze objects the caller has constructed with these arguments
    first_walls,        \* the walls of the Maze constructed first, which the caller keeps
    phase,              \* MazeGame: "off" (no game), "reset" (in reset_game, the maze
                        \* under construction), "run" (in the loop of run), "quit"
    player_pos,         \* MazeGame.player_pos
    game_path,          \* MazeGame.path: the cells the player has left
    solution,           \* MazeGame.solution
    lives,              \* MazeGame.lives
    game_over,          \* MazeGame.game_over
    show_solution,      \* MazeGame.show_solution
    solving_algorithm,  \* MazeGame.solving_algorithm
    running             \* the local `running` of MazeGame.run

mazeVars == <<width, height, walls, visited, is_start, is_end, start, end>>
genVars == <<stack, pc>>
bfsVars == <<queue, bfs_visited>>
dfsVars == <<dfs_stack, dfs_visited>>
astarVars == <<open_set, came_from, g_score, f_score>>
solveVars == <<solver, bfsVars, dfsVars, astarVars, returned, path>>
callerVars == <<constructions, first_walls>>
gameVars == <<phase, player_pos, game_path, solution, lives, game_over, show_solution,
              solving_algorithm, running>>
extVars == <<callerVars, gameVars>>
vars == <<mazeVars, genVars, solveVars, extVars>>

\* --------------------------------------------------------------- Direction
\* class Direction(Enum), in definition order (the order `for direction in
\* Direction` iterates in).
Direction == <<"NORTH", "SOUTH", "EAST", "WEST">>

Directions == {Direction[i] : i \in 1..Len(Direction)}

\* Direction.value
value(direction) ==
    CASE direction = "NORTH" -> <<0, -1>>
      [] direction = "SOUTH" -> <<0, 1>>
      [] direction = "EAST" -> <<1, 0>>
      [] direction = "WEST" -> <<-1, 0>>

\* Direction.opposite
opposite(direction) ==
    CASE direction = "NORTH" -> "SOUTH"
      [] direction = "SOUTH" -> "NORTH"
      [] direction = "EAST" -> "WEST"
      [] direction = "WEST" -> "EAST"

\* Direction((dx, dy)): the member with that value.
DirectionOf(delta) == CHOOSE d \in Directions : value(d) = delta

\* -------------------------------------------------------------------- Maze
\* The indices of self.cells: [[Cell(x, y) for y in range(height)] for x in range(width)].
Cells(w, h) == (0..(w - 1)) \X (0..(h - 1))

\* Cell.__init__: every wall present.
NewWalls == [d \in Directions |-> TRUE]

\* Cell.has_wall
has_wall(w, c, direction) == w[c][direction]

\* Cell.remove_wall on cell c of the wall map w.
remove_wall(w, c, direction) == [w EXCEPT ![c][direction] = FALSE]

\* The bounds test 0 <= nx < self.width and 0 <= ny < self.height.
InBounds(c) == 0 <= c[1] /\ c[1] < width /\ 0 <= c[2] /\ c[2] < height

\* The offsets _get_neighbors tries, in its order.
NeighborOffsets == <<(<<0, 1>>), (<<1, 0>>), (<<0, -1>>), (<<-1, 0>>)>>

\* Maze._get_neighbors
_get_neighbors(c) ==
    LET all == [i \in 1..Len(NeighborOffsets) |->
                    <<c[1] + NeighborOffsets[i][1], c[2] + NeighborOffsets[i][2]>>]
    IN SelectSeq(all, InBounds)

\* ConnectedIn without the has_wall test: every neighbour inside the grid.
ConnectedIgnoringWalls(w, c) ==
    LET all == [i \in 1..Len(Direction) |->
                    <<c[1] + value(Direction[i])[1], c[2] + value(Direction[i])[2]>>]
    IN SelectSeq(all, InBounds)

\* Maze._get_connected_neighbors over the wall map w.
ConnectedIn(w, c) ==
    LET all == [i \in 1..Len(Direction) |->
                    <<Direction[i], <<c[1] + value(Direction[i])[1],
                                      c[2] + value(Direction[i])[2]>>>>]
        ok(e) == InBounds(e[2]) /\ ~has_wall(w, c, e[1])
        kept == SelectSeq(all, ok)
    IN [i \in 1..Len(kept) |-> kept[i][2]]

_get_connected_neighbors(c) == ConnectedIn(walls, c)

\* ------------------------------------------------------------ construction
\* Maze.__init__ up to its call of _generate_maze, for width w and height h.
MazeFields(w, h) ==
    /\ width = w
    /\ height = h
    /\ walls = [c \in Cells(w, h) |-> NewWalls]
    /\ visited = [c \in Cells(w, h) |-> FALSE]
    /\ is_start = [c \in Cells(w, h) |-> FALSE]
    /\ is_end = [c \in Cells(w, h) |-> FALSE]
    /\ start = <<0, 0>>
    /\ end = <<w - 1, h - 1>>

\* No solver has been called.
SolversIdle ==
    /\ solver = "none"
    /\ queue = <<>>
    /\ bfs_visited = {}
    /\ dfs_stack = <<>>
    /\ dfs_visited = {}
    /\ open_set = <<>>
    /\ came_from = <<>>
    /\ g_score = <<>>
    /\ f_score = <<>>
    /\ returned = {}
    /\ path = [s \in {"bfs", "dfs", "astar"} |-> <<>>]

\* The caller is constructing its first Maze.
FirstConstruction ==
    /\ constructions = 1
    /\ first_walls = <<>>

\* MazeGame.lives at reset (line 194).
InitialLives == 3

\* The attributes of a MazeGame while reset_game constructs its maze; they hold
\* the values lines 191-197 give them before anything else reads them.
GameFields(ph) ==
    /\ phase = ph
    /\ running = TRUE
    /\ player_pos = <<0, 0>>
    /\ game_path = <<>>
    /\ solution = <<>>
    /\ lives = InitialLives
    /\ game_over = FALSE
    /\ show_solution = FALSE
    /\ solving_algorithm = "BFS"

Init ==
    /\ \E w \in (0 - NegDims)..MaxW, h \in (0 - NegDims)..MaxH : MazeFields(w, h)
    /\ stack = <<>>
    /\ pc = "generate"
    /\ SolversIdle
    /\ FirstConstruction
    /\ GameFields("off")

\* GenBegin with the marking of a missing cell (0, 0) skipped instead of
\* raising: _generate_maze returns at once.
GenBeginGuarded ==
    /\ pc = "generate"
    /\ IF <<0, 0>> \in DOMAIN visited
       THEN /\ stack' = <<(<<0, 0>>)>>
            /\ visited' = [visited EXCEPT ![<<0, 0>>] = TRUE]
            /\ pc' = "loop"
       ELSE /\ pc' = "done"
            /\ UNCHANGED <<stack, visited>>
    /\ UNCHANGED <<width, height, walls, is_start, is_end, start, end, solveVars, extVars>>

\* _generate_maze, lines 77-78: self.cells[0][0] raises IndexError when the
\* grid has no column 0 or no row 0.
GenBegin ==
    /\ pc = "generate"
    /\ IF <<0, 0>> \in DOMAIN visited
       THEN /\ stack' = <<(<<0, 0>>)>>
            /\ visited' = [visited EXCEPT ![<<0, 0>>] = TRUE]
            /\ pc' = "loop"
       ELSE /\ pc' = "raised"
            /\ UNCHANGED <<stack, visited>>
    /\ UNCHANGED <<width, height, walls, is_start, is_end, start, end, solveVars, extVars>>

\* The unvisited grid neighbours of the top of the stack (lines 81-84).
Unvisited(c) == SelectSeq(_get_neighbors(c), LAMBDA n : ~visited[n])

\* GenPop without stack.pop(): the dead end stays on top of the stack.
GenPopNoPop ==
    /\ pc = "loop"
    /\ stack # <<>>
    /\ Unvisited(stack[Len(stack)]) = <<>>
    /\ stack' = stack
    /\ UNCHANGED <<mazeVars, pc, solveVars, extVars>>

\* GenPop with `break` in place of `continue`: the loop is left at the first
\* dead end.
GenPopBreak ==
    /\ pc = "loop"
    /\ stack # <<>>
    /\ Unvisited(stack[Len(stack)]) = <<>>
    /\ stack' = <<>>
    /\ UNCHANGED <<mazeVars, pc, solveVars, extVars>>

\* One iteration that backtracks (lines 80-88).
GenPop ==
    /\ pc = "loop"
    /\ stack # <<>>
    /\ Unvisited(stack[Len(stack)]) = <<>>
    /\ stack' = SubSeq(stack, 1, Len(stack) - 1)
    /\ UNCHANGED <<mazeVars, pc, solveVars, extVars>>

\* Carve with the two directions exchanged: the current cell loses its wall
\* away from the neighbour, and the neighbour its wall away from the current.
CarveAway(w, current, neighbor) ==
    LET direction == DirectionOf(<<neighbor[1] - current[1], neighbor[2] - current[2]>>)
    IN remove_wall(remove_wall(w, current, opposite(direction)), neighbor, direction)

\* Carve with the neighbour's wall removed in `direction`, not its opposite.
CarveSameDirection(w, current, neighbor) ==
    LET direction == DirectionOf(<<neighbor[1] - current[1], neighbor[2] - current[2]>>)
    IN remove_wall(remove_wall(w, current, direction), neighbor, direction)

\* Lines 93-96: both walls between current and neighbor are removed.
Carve(w, current, neighbor) ==
    LET direction == DirectionOf(<<neighbor[1] - current[1], neighbor[2] - current[2]>>)
    IN remove_wall(remove_wall(w, current, direction), neighbor, opposite(direction))

\* GenCarve with stack.append(current) in place of stack.append(neighbor).
GenCarvePushCurrent ==
    /\ pc = "loop"
    /\ stack # <<>>
    /\ LET current == stack[Len(stack)]
           neighbors == Unvisited(current)
       IN /\ neighbors # <<>>
          /\ \E i \in 1..Len(neighbors) :
                /\ walls' = Carve(walls, current, neighbors[i])
                /\ visited' = [visited EXCEPT ![neighbors[i]] = TRUE]
                /\ stack' = Append(stack, current)
    /\ UNCHANGED <<width, height, is_start, is_end, start, end, pc, solveVars, extVars>>

\* One iteration that carves (lines 80-85 and 90-99).
GenCarve ==
    /\ pc = "loop"
    /\ stack # <<>>
    /\ LET current == stack[Len(stack)]
           neighbors == Unvisited(current)
       IN /\ neighbors # <<>>
          /\ \E i \in 1..Len(neighbors) :
                /\ walls' = Carve(walls, current, neighbors[i])
                /\ visited' = [visited EXCEPT ![neighbors[i]] = TRUE]
                /\ stack' = Append(stack, neighbors[i])
    /\ UNCHANGED <<width, height, is_start, is_end, start, end, pc, solveVars, extVars>>

\* GenFinish with line 103 indexing the cells by self.start.
GenFinishEndOnStart ==
    /\ pc = "loop"
    /\ stack = <<>>
    /\ is_start' = [is_start EXCEPT ![start] = TRUE]
    /\ is_end' = [is_end EXCEPT ![start] = TRUE]
    /\ pc' = "done"
    /\ UNCHANGED <<width, height, walls, visited, start, end, stack, solveVars, extVars>>

\* The loop ends and the start and end cells are marked (lines 80, 101-103).
GenFinish ==
    /\ pc = "loop"
    /\ stack = <<>>
    /\ is_start' = [is_start EXCEPT ![start] = TRUE]
    /\ is_end' = [is_end EXCEPT ![end] = TRUE]
    /\ pc' = "done"
    /\ UNCHANGED <<width, height, walls, visited, start, end, stack, solveVars, extVars>>

NextGen == GenBegin \/ GenPop \/ GenCarve \/ GenFinish

\* ---------------------------------------------------------------- solvers
Solvers == {"bfs", "dfs", "astar"}

\* What a solver leaves behind when it returns p: its locals are gone.
Return(s, p) ==
    /\ solver' = "none"
    /\ queue' = <<>>
    /\ bfs_visited' = {}
    /\ dfs_stack' = <<>>
    /\ dfs_visited' = {}
    /\ open_set' = <<>>
    /\ came_from' = <<>>
    /\ g_score' = <<>>
    /\ f_score' = <<>>
    /\ returned' = returned \cup {s}
    /\ path' = [path EXCEPT ![s] = p]

\* A call of solver s: the caller's previous result of s is dropped.
Call(s) ==
    /\ pc \in {"done", "hand"}
    /\ solver = "none"
    /\ solver' = s
    /\ returned' = returned \ {s}
    /\ path' = [path EXCEPT ![s] = <<>>]

\* solve_bfs, lines 107-108.
BfsCall ==
    /\ Call("bfs")
    /\ queue' = <<(<<start, <<start>>>>)>>
    /\ bfs_visited' = {start}
    /\ UNCHANGED <<mazeVars, genVars, dfsVars, astarVars, extVars>>

\* BfsPop with queue.pop() in place of queue.pop(0).
BfsPopLast(q) == <<q[Len(q)], SubSeq(q, 1, Len(q) - 1)>>

\* solve_bfs, line 111: queue.pop(0); <<the popped entry, the queue left>>.
BfsPop(q) == <<Head(q), Tail(q)>>

\* BfsPush with a `break` after the first neighbour that is queued.
BfsPushFirstOnly(nbrs, i, p, vis, q) ==
    LET new == SelectSeq(nbrs, LAMBDA n : n \notin vis)
    IN IF new = <<>> THEN <<vis, q>>
       ELSE <<vis \cup {new[1]}, Append(q, <<new[1], Append(p, new[1])>>)>>

\* solve_bfs, lines 116-119: the for loop over the connected neighbours nbrs
\* of a cell reached by path p, from index i on; <<visited, queue>> after it.
RECURSIVE BfsPush(_, _, _, _, _)
BfsPush(nbrs, i, p, vis, q) ==
    IF i > Len(nbrs) THEN <<vis, q>>
    ELSE IF nbrs[i] \notin vis
         THEN BfsPush(nbrs, i + 1, p, vis \cup {nbrs[i]},
                      Append(q, <<nbrs[i], Append(p, nbrs[i])>>))
         ELSE BfsPush(nbrs, i + 1, p, vis, q)

\* solve_bfs, lines 110-114: the popped cell is the end.
BfsReturn ==
    /\ solver = "bfs"
    /\ queue # <<>>
    /\ BfsPop(queue)[1][1] = end
    /\ Return("bfs", BfsPop(queue)[1][2])
    /\ UNCHANGED <<mazeVars, genVars, extVars>>

\* solve_bfs, lines 110-119: the popped cell is expanded.
BfsExpand ==
    /\ solver = "bfs"
    /\ queue # <<>>
    /\ LET popped == BfsPop(queue)
           r == BfsPush(_get_connected_neighbors(popped[1][1]), 1, popped[1][2],
                        bfs_visited, popped[2])
       IN /\ popped[1][1] # end
          /\ bfs_visited' = r[1]
          /\ queue' = r[2]
    /\ UNCHANGED <<mazeVars, genVars, solver, dfsVars, astarVars, returned, path, extVars>>

\* solve_bfs, lines 110 and 120: the queue ran empty.
BfsExhausted ==
    /\ solver = "bfs"
    /\ queue = <<>>
    /\ Return("bfs", <<>>)
    /\ UNCHANGED <<mazeVars, genVars, extVars>>

\* DfsCall with the search marking the start cell in Cell.visited after
\* clearing the flag on every cell, in place of a local visited set.
DfsCallClearsVisited ==
    /\ Call("dfs")
    /\ dfs_stack' = <<(<<start, <<start>>>>)>>
    /\ dfs_visited' = {start}
    /\ visited' = [c \in DOMAIN visited |-> c = start]
    /\ UNCHANGED <<width, height, walls, is_start, is_end, start, end>>
    /\ UNCHANGED <<genVars, bfsVars, astarVars, extVars>>

\* solve_dfs, lines 124-125.
DfsCall ==
    /\ Call("dfs")
    /\ dfs_stack' = <<(<<start, <<start>>>>)>>
    /\ dfs_visited' = {start}
    /\ UNCHANGED <<mazeVars, genVars, bfsVars, astarVars, extVars>>

\* DfsPush with one path list shared by the entries pushed in the same
\* iteration (path.append in place of path + [...]).
RECURSIVE DfsPushSharedPath(_, _, _, _, _)
DfsPushSharedPath(nbrs, i, p, vis, st) ==
    IF i > Len(nbrs) THEN <<vis, st>>
    ELSE IF nbrs[i] \notin vis
         THEN DfsPushSharedPath(nbrs, i + 1, Append(p, nbrs[i]), vis \cup {nbrs[i]},
                                Append(st, <<nbrs[i], Append(p, nbrs[i])>>))
         ELSE DfsPushSharedPath(nbrs, i + 1, p, vis, st)

\* solve_dfs, lines 133-136.
RECURSIVE DfsPush(_, _, _, _, _)
DfsPush(nbrs, i, p, vis, st) ==
    IF i > Len(nbrs) THEN <<vis, st>>
    ELSE IF nbrs[i] \notin vis
         THEN DfsPush(nbrs, i + 1, p, vis \cup {nbrs[i]},
                      Append(st, <<nbrs[i], Append(p, nbrs[i])>>))
         ELSE DfsPush(nbrs, i + 1, p, vis, st)

\* solve_dfs, lines 127-131.
DfsReturn ==
    /\ solver = "dfs"
    /\ dfs_stack # <<>>
    /\ dfs_stack[Len(dfs_stack)][1] = end
    /\ Return("dfs", dfs_stack[Len(dfs_stack)][2])
    /\ UNCHANGED <<mazeVars, genVars, extVars>>

\* solve_dfs, lines 127-136.
DfsExpand ==
    /\ solver = "dfs"
    /\ dfs_stack # <<>>
    /\ LET top == dfs_stack[Len(dfs_stack)]
           r == DfsPush(_get_connected_neighbors(top[1]), 1, top[2], dfs_visited,
                        SubSeq(dfs_stack, 1, Len(dfs_stack) - 1))
       IN /\ top[1] # end
          /\ dfs_visited' = r[1]
          /\ dfs_stack' = r[2]
    /\ UNCHANGED <<mazeVars, genVars, solver, bfsVars, astarVars, returned, path, extVars>>

\* solve_dfs, lines 127 and 137.
DfsExhausted ==
    /\ solver = "dfs"
    /\ dfs_stack = <<>>
    /\ Return("dfs", <<>>)
    /\ UNCHANGED <<mazeVars, genVars, extVars>>

Abs(n) == IF n < 0 THEN 0 - n ELSE n

\* solve_astar.heuristic
heuristic(a, b) == Abs(a[1] - b[1]) + Abs(a[2] - b[2])

\* Python's order of the heap's entries (f, (x, y)): tuples compare item by item.
EntryLess(a, b) ==
    \/ a[1] < b[1]
    \/ a[1] = b[1] /\ a[2][1] < b[2][1]
    \/ a[1] = b[1] /\ a[2][1] = b[2][1] /\ a[2][2] < b[2][2]

\* HeapMin for a plain list popped at its end.
HeapLast(h) == Len(h)

\* heapq.heappop: the index of the least entry of the heap h.
HeapMin(h) == CHOOSE i \in 1..Len(h) : \A j \in 1..Len(h) : ~EntryLess(h[j], h[i])

\* The heap h without its entry i.
HeapWithout(h, i) == SubSeq(h, 1, i - 1) \o SubSeq(h, i + 1, Len(h))

\* heapq.heappush
heappush(h, e) == Append(h, e)

\* solve_astar, lines 144-148.
AstarCall ==
    /\ Call("astar")
    /\ open_set' = heappush(<<>>, <<0, start>>)
    /\ came_from' = <<>>
    /\ g_score' = (start :> 0)
    /\ f_score' = (start :> heuristic(start, end))
    /\ UNCHANGED <<mazeVars, genVars, bfsVars, dfsVars, extVars>>

\* Improves without the comparison of g-scores: every neighbour is inserted.
ImprovesAlways(g, neighbor, tentative_g_score) == TRUE

\* solve_astar, line 164: the test that lets a neighbour be (re)inserted.
Improves(g, neighbor, tentative_g_score) ==
    neighbor \notin DOMAIN g \/ tentative_g_score < g[neighbor]

\* solve_astar, lines 161-168: the for loop over current's neighbours nbrs
\* from index i on; <<came_from, g_score, f_score, open_set>> after it.
RECURSIVE AstarPush(_, _, _, _, _, _, _)
AstarPush(nbrs, i, current, cf, g, f, h) ==
    IF i > Len(nbrs) THEN <<cf, g, f, h>>
    ELSE LET neighbor == nbrs[i]
             tentative_g_score == g[current] + 1
             fn == tentative_g_score + heuristic(neighbor, end)
         IN IF Improves(g, neighbor, tentative_g_score)
            THEN AstarPush(nbrs, i + 1, current,
                           (neighbor :> current) @@ cf,
                           (neighbor :> tentative_g_score) @@ g,
                           (neighbor :> fn) @@ f,
                           heappush(h, <<fn, neighbor>>))
            ELSE AstarPush(nbrs, i + 1, current, cf, g, f, h)

\* solve_astar, lines 154-157: the cells from current back along came_from,
\* current first.
RECURSIVE WalkBack(_, _)
WalkBack(cf, current) ==
    IF current \in DOMAIN cf
    THEN <<current>> \o WalkBack(cf, cf[current])
    ELSE <<>>

\* Reverse without the reversal: the list as it was built.
NotReversed(s) == s

\* path[::-1]
Reverse(s) == [i \in 1..Len(s) |-> s[Len(s) + 1 - i]]

\* Reconstruct without line 158, path.append(self.start).
ReconstructNoStart(cf, current) == Reverse(WalkBack(cf, current))

\* solve_astar, lines 154-159.
Reconstruct(cf, current) == Reverse(Append(WalkBack(cf, current), start))

\* solve_astar, lines 150-159: the popped cell is the end.
AstarReturn ==
    /\ solver = "astar"
    /\ open_set # <<>>
    /\ LET current == open_set[HeapMin(open_set)][2]
       IN /\ current = end
          /\ Return("astar", Reconstruct(came_from, current))
    /\ UNCHANGED <<mazeVars, genVars, extVars>>

\* solve_astar, lines 150-168: the popped cell is expanded.
AstarExpand ==
    /\ solver = "astar"
    /\ open_set # <<>>
    /\ LET i == HeapMin(open_set)
           current == open_set[i][2]
           r == AstarPush(_get_connected_neighbors(current), 1, current,
                          came_from, g_score, f_score, HeapWithout(open_set, i))
       IN /\ current # end
          /\ came_from' = r[1]
          /\ g_score' = r[2]
          /\ f_score' = r[3]
          /\ open_set' = r[4]
    /\ UNCHANGED <<mazeVars, genVars, solver, bfsVars, dfsVars, returned, path, extVars>>

\* solve_astar, lines 150 and 170.
AstarExhausted ==
    /\ solver = "astar"
    /\ open_set = <<>>
    /\ Return("astar", <<>>)
    /\ UNCHANGED <<mazeVars, genVars, extVars>>

\* ------------------------------------------------- hand-built wall layouts
\* The cell that side s = <<cell, direction>> faces.
Facing(s) == <<s[1][1] + value(s[2])[1], s[1][2] + value(s[2])[2]>>

\* The sides whose facing cell is inside the w x h grid, and the others.
InnerSides(w, h) == {s \in Cells(w, h) \X Directions : Facing(s) \in Cells(w, h)}

BoundarySides(w, h) == (Cells(w, h) \X Directions) \ InnerSides(w, h)

\* The other side of the same shared edge.
OtherSide(s) == <<Facing(s), opposite(s[2])>>

\* The wall layouts written by hand into a w x h grid, each as the set of
\* sides without a wall.  Every layout that is symmetric across each shared
\* edge and keeps the boundary; up to MaxAsymCells cells also the layouts
\* whose two sides of an edge differ, with the boundary kept or removed.
HandLayouts(w, h) ==
    IF w * h <= MaxAsymCells
    THEN {inner \cup outer : inner \in SUBSET InnerSides(w, h),
                             outer \in {{}, BoundarySides(w, h)}}
    ELSE {half \cup {OtherSide(s) : s \in half} :
            half \in SUBSET {s \in InnerSides(w, h) : s[2] \in {"SOUTH", "EAST"}}}

\* A test that bypasses the generator: the walls of a constructed maze are
\* overwritten (cell.walls[direction] = ...) before any solver is called.
HandBuild ==
    /\ pc = "done"
    /\ solver = "none"
    /\ returned = {}
    /\ width * height <= MaxCells
    /\ \E open \in HandLayouts(width, height) :
          walls' = [c \in Cells(width, height) |->
                        [d \in Directions |-> <<c, d>> \notin open]]
    /\ pc' = "hand"
    /\ UNCHANGED <<width, height, visited, is_start, is_end, start, end, stack, solveVars, extVars>>

NextSolve ==
    \/ BfsCall \/ BfsReturn \/ BfsExpand \/ BfsExhausted
    \/ DfsCall \/ DfsReturn \/ DfsExpand \/ DfsExhausted
    \/ AstarCall \/ AstarReturn \/ AstarExpand \/ AstarExhausted

Next == NextGen \/ HandBuild \/ NextSolve

\* A maze is constructed, possibly rebuilt by hand, then solved any number of
\* times in any order.
Spec == Init /\ [][Next]_vars

\* The steps inside a solver invocation.
SolverLoop ==
    \/ BfsReturn \/ BfsExpand \/ BfsExhausted
    \/ DfsReturn \/ DfsExpand \/ DfsExhausted
    \/ AstarReturn \/ AstarExpand \/ AstarExhausted

\* The mazes of at most MaxFairCells cells (negative sizes count as large).
InitFair == Init /\ width * height <= MaxFairCells /\ width >= 0

\* A solver invocation runs without suspension points: once called, it takes
\* its next step.
SpecFair == InitFair /\ [][Next]_vars /\ WF_vars(SolverLoop)

\* The constructor alone.
SpecGen == Init /\ [][NextGen]_vars

\* The constructor runs without suspension points: while it has a step to take
\* it takes one.
SpecGenFair == SpecGen /\ WF_vars(NextGen)

\* --------------------------------------------------- a second construction
\* Maze.__init__ up to its call of _generate_maze, run for a new Maze object
\* of width w and height h that takes the place of the current one.
Construct(w, h) ==
    /\ width' = w
    /\ height' = h
    /\ walls' = [c \in Cells(w, h) |-> NewWalls]
    /\ visited' = [c \in Cells(w, h) |-> FALSE]
    /\ is_start' = [c \in Cells(w, h) |-> FALSE]
    /\ is_end' = [c \in Cells(w, h) |-> FALSE]
    /\ start' = <<0, 0>>
    /\ end' = <<w - 1, h - 1>>
    /\ stack' = <<>>
    /\ pc' = "generate"

\* Maze(self.width, self.height, self.cell_size) is called again with the
\* arguments of the first call, as reset_game does (line 190); the walls of
\* the first Maze are kept for comparison. The constructor takes no seed and
\* no random source (line 46), so the arguments are all of its inputs.
ConstructAgain ==
    /\ pc = "done"
    /\ phase = "off"
    /\ constructions = 1
    /\ solver = "none"
    /\ returned = {}
    /\ first_walls' = walls
    /\ constructions' = 2
    /\ Construct(width, height)
    /\ UNCHANGED <<solveVars, gameVars>>

NextTwice == NextGen \/ ConstructAgain

\* Two constructions with the same arguments, one after the other.
SpecTwice == Init /\ [][NextTwice]_vars

\* ------------------------------------------------------------------- game
\* solve_bfs run from a queue and a visited set to its return value.
RECURSIVE solve_bfs_from(_, _)
solve_bfs_from(q, vis) ==
    IF q = <<>> THEN <<>>
    ELSE LET popped == BfsPop(q)
         IN IF popped[1][1] = end THEN popped[1][2]
            ELSE LET r == BfsPush(_get_connected_neighbors(popped[1][1]), 1,
                                  popped[1][2], vis, popped[2])
                 IN solve_bfs_from(r[2], r[1])

\* solve_bfs, lines 105-120.
solve_bfs == solve_bfs_from(<<(<<start, <<start>>>>)>>, {start})

\* solve_dfs run from a stack and a visited set to its return value.
RECURSIVE solve_dfs_from(_, _)
solve_dfs_from(st, vis) ==
    IF st = <<>> THEN <<>>
    ELSE LET top == st[Len(st)]
         IN IF top[1] = end THEN top[2]
            ELSE LET r == DfsPush(_get_connected_neighbors(top[1]), 1, top[2], vis,
                                  SubSeq(st, 1, Len(st) - 1))
                 IN solve_dfs_from(r[2], r[1])

\* solve_dfs, lines 122-137.
solve_dfs == solve_dfs_from(<<(<<start, <<start>>>>)>>, {start})

\* solve_astar run from a heap, came_from, g_score and f_score to its return
\* value.
RECURSIVE solve_astar_from(_, _, _, _)
solve_astar_from(h, cf, g, f) ==
    IF h = <<>> THEN <<>>
    ELSE LET i == HeapMin(h)
             current == h[i][2]
         IN IF current = end THEN Reconstruct(cf, current)
            ELSE LET r == AstarPush(_get_connected_neighbors(current), 1, current,
                                    cf, g, f, HeapWithout(h, i))
                 IN solve_astar_from(r[4], r[1], r[2], r[3])

\* solve_astar, lines 139-170.
solve_astar ==
    solve_astar_from(heappush(<<>>, <<0, start>>), <<>>, (start :> 0),
                     (start :> heuristic(start, end)))

\* MazeGame(width, height, cell_size) for positive sizes: __init__ has called
\* reset_game, which is constructing the maze.
InitGame ==
    /\ \E w \in 1..MaxGameW, h \in 1..MaxGameH :
          w * h <= MaxGameCells /\ MazeFields(w, h)
    /\ stack = <<>>
    /\ pc = "generate"
    /\ SolversIdle
    /\ FirstConstruction
    /\ GameFields("reset")

\* reset_game returns (lines 188-197) and the loop of run goes on, or starts.
ResetFinish ==
    /\ phase = "reset"
    /\ pc = "done"
    /\ phase' = "run"
    /\ UNCHANGED <<mazeVars, genVars, solveVars, callerVars>>
    /\ UNCHANGED <<player_pos, game_path, solution, lives, game_over, show_solution,
                   solving_algorithm, running>>

\* K_r (lines 318-319): reset_game replaces the maze by a new one under
\* construction and resets the game's attributes (lines 190-197).
KeyReset ==
    /\ phase = "run"
    /\ Construct(width, height)
    /\ phase' = "reset"
    /\ player_pos' = <<0, 0>>
    /\ game_path' = <<>>
    /\ solution' = <<>>
    /\ lives' = InitialLives
    /\ game_over' = FALSE
    /\ show_solution' = FALSE
    /\ solving_algorithm' = "BFS"
    /\ UNCHANGED <<solveVars, callerVars, running>>

\* The (dx, dy) of K_UP, K_DOWN, K_LEFT and K_RIGHT (lines 321-328).
ArrowKeys == {<<0, -1>>, <<0, 1>>, <<-1, 0>>, <<1, 0>>}

\* move_player without the four wall checks of lines 281-289.
move_player_through_walls(dx, dy) ==
    LET x == player_pos[1]
        y == player_pos[2]
        new == <<x + dx, y + dy>>
    IN IF game_over \/ ~InBounds(new)
       THEN UNCHANGED <<player_pos, game_path, game_over>>
       ELSE /\ player_pos' = new
            /\ game_path' = Append(game_path, <<x, y>>)
            /\ game_over' = IF new = end THEN TRUE ELSE game_over

\* move_player(dx, dy), lines 269-296, reached from run only while game_over
\* is false (line 320).
move_player(dx, dy) ==
    LET x == player_pos[1]
        y == player_pos[2]
        new == <<x + dx, y + dy>>
    IN IF \/ game_over
          \/ ~InBounds(new)
          \/ dx > 0 /\ has_wall(walls, <<x, y>>, "EAST")
          \/ dx < 0 /\ has_wall(walls, <<x, y>>, "WEST")
          \/ dy > 0 /\ has_wall(walls, <<x, y>>, "SOUTH")
          \/ dy < 0 /\ has_wall(walls, <<x, y>>, "NORTH")
       THEN UNCHANGED <<player_pos, game_path, game_over>>
       ELSE /\ player_pos' = new
            /\ game_path' = Append(game_path, <<x, y>>)
            /\ game_over' = IF new = end THEN TRUE ELSE game_over

\* An arrow key (lines 320-328).
KeyArrow ==
    /\ phase = "run"
    /\ Len(game_path) < MaxPath
    /\ \E d \in ArrowKeys : move_player(d[1], d[2])
    /\ UNCHANGED <<mazeVars, genVars, solveVars, callerVars>>
    /\ UNCHANGED <<phase, solution, lives, show_solution, solving_algorithm, running>>

\* K_s (lines 320, 329-330) and solve_maze (lines 298-306).
KeySolve ==
    /\ phase = "run"
    /\ ~game_over
    /\ solution' = CASE solving_algorithm = "BFS" -> solve_bfs
                     [] solving_algorithm = "DFS" -> solve_dfs
                     [] solving_algorithm = "A*" -> solve_astar
    /\ show_solution' = TRUE
    /\ UNCHANGED <<mazeVars, genVars, solveVars, callerVars>>
    /\ UNCHANGED <<phase, player_pos, game_path, lives, game_over, solving_algorithm, running>>

\* K_1, K_2 and K_3 (lines 320, 331-342).
KeyAlgorithm ==
    /\ phase = "run"
    /\ ~game_over
    /\ \E a \in {"BFS", "DFS", "A*"} : solving_algorithm' = a
    /\ show_solution' = FALSE
    /\ solution' = <<>>
    /\ UNCHANGED <<mazeVars, genVars, solveVars, callerVars>>
    /\ UNCHANGED <<phase, player_pos, game_path, lives, game_over, running>>

\* QUIT or K_ESCAPE (lines 313-317): the events left in this frame and its
\* check still run.
KeyQuit ==
    /\ phase = "run"
    /\ running
    /\ running' = FALSE
    /\ UNCHANGED <<mazeVars, genVars, solveVars, callerVars>>
    /\ UNCHANGED <<phase, player_pos, game_path, solution, lives, game_over, show_solution,
                   solving_algorithm>>

\* The number of latest earlier path entries a backtrack is looked for in
\* (line 348).
RecentWindow == 5

\* The path may be LoopFactor times as long as the maze has cells (line 353).
LoopFactor == 2

\* Cell c occurs in sequence s.
InSeq(c, s) == \E i \in 1..Len(s) : s[i] = c

\* s[-n:]
LastN(s, n) == IF Len(s) <= n THEN s ELSE SubSeq(s, Len(s) - n + 1, Len(s))

\* s.index(c) + 1: the first position of c in s.
FirstIndex(s, c) == CHOOSE i \in 1..Len(s) : s[i] = c /\ \A j \in 1..(i - 1) : s[j] # c

\* FrameCheck without the test of game_over at line 345.
FrameCheckAfterGameOver ==
    /\ phase = "run"
    /\ IF Len(game_path) > 1
       THEN LET earlier == SubSeq(game_path, 1, Len(game_path) - 1)
            IN IF InSeq(player_pos, earlier)
               THEN IF InSeq(player_pos, LastN(earlier, RecentWindow))
                    THEN /\ lives' = lives - 1
                         /\ game_over' = IF lives - 1 <= 0 THEN TRUE ELSE game_over
                         /\ game_path' = SubSeq(game_path, 1,
                                                FirstIndex(game_path, player_pos))
                         /\ UNCHANGED player_pos
                    ELSE UNCHANGED <<lives, game_over, game_path, player_pos>>
               ELSE IF Len(game_path) > width * height * LoopFactor
                    THEN /\ lives' = lives - 1
                         /\ game_over' = IF lives - 1 <= 0 THEN TRUE ELSE game_over
                         /\ game_path' = <<>>
                         /\ player_pos' = start
                    ELSE UNCHANGED <<lives, game_over, game_path, player_pos>>
       ELSE UNCHANGED <<lives, game_over, game_path, player_pos>>
    /\ phase' = IF running THEN "run" ELSE "quit"
    /\ UNCHANGED <<mazeVars, genVars, solveVars, callerVars>>
    /\ UNCHANGED <<solution, show_solution, solving_algorithm, running>>

\* The end of a frame (lines 344-361): the check of the path, then the loop
\* goes on or, after a quit, ends.
FrameCheck ==
    /\ phase = "run"
    /\ IF ~game_over /\ Len(game_path) > 1
       THEN LET earlier == SubSeq(game_path, 1, Len(game_path) - 1)
            IN IF InSeq(player_pos, earlier)
               THEN IF InSeq(player_pos, LastN(earlier, RecentWindow))
                    THEN /\ lives' = lives - 1
                         /\ game_over' = IF lives - 1 <= 0 THEN TRUE ELSE game_over
                         /\ game_path' = SubSeq(game_path, 1,
                                                FirstIndex(game_path, player_pos))
                         /\ UNCHANGED player_pos
                    ELSE UNCHANGED <<lives, game_over, game_path, player_pos>>
               ELSE IF Len(game_path) > width * height * LoopFactor
                    THEN /\ lives' = lives - 1
                         /\ game_over' = IF lives - 1 <= 0 THEN TRUE ELSE game_over
                         /\ game_path' = <<>>
                         /\ player_pos' = start
                    ELSE UNCHANGED <<lives, game_over, game_path, player_pos>>
       ELSE UNCHANGED <<lives, game_over, game_path, player_pos>>
    /\ phase' = IF running THEN "run" ELSE "quit"
    /\ UNCHANGED <<mazeVars, genVars, solveVars, callerVars>>
    /\ UNCHANGED <<solution, show_solution, solving_algorithm, running>>

NextGame ==
    \/ NextGen \/ ResetFinish
    \/ KeyReset \/ KeyArrow \/ KeySolve \/ KeyAlgorithm \/ KeyQuit
    \/ FrameCheck

\* A game: construction, then any key events and frames.
SpecGame == InitGame /\ [][NextGame]_vars

\* ================================================================== claims
\* The cells of the maze.
AllCells == Cells(width, height)

\* Cells a and b share a grid edge.
GridAdjacent(a, b) == Abs(a[1] - b[1]) + Abs(a[2] - b[2]) = 1

\* The direction in which the grid neighbour b lies from a.
Toward(a, b) ==
    IF b[1] > a[1] THEN "EAST"
    ELSE IF b[1] < a[1] THEN "WEST"
    ELSE IF b[2] > a[2] THEN "SOUTH" ELSE "NORTH"

\* Neither a nor b has a wall toward the other.
NoWallBetween(a, b) == ~walls[a][Toward(a, b)] /\ ~walls[b][Toward(b, a)]

\* The grid neighbours of a.
Around(a) ==
    {b \in {<<a[1] + 1, a[2]>>, <<a[1] - 1, a[2]>>, <<a[1], a[2] + 1>>, <<a[1], a[2] - 1>>} :
        b[1] \in 0..(width - 1) /\ b[2] \in 0..(height - 1)}

\* The edges of the connectivity graph: pairs of grid-adjacent cells with no
\* wall between them, each named by its south or east side.
Edges ==
    {e \in AllCells \X {"SOUTH", "EAST"} :
        Facing(e) \in AllCells /\ NoWallBetween(e[1], Facing(e))}

\* The cells that share an edge of the connectivity graph with a.
Joined(a) == {b \in Around(a) : NoWallBetween(a, b)}

\* The cells joined to a cell of S by a path of edges.
RECURSIVE Component(_)
Component(S) ==
    LET T == S \cup UNION {Joined(a) : a \in S}
    IN IF T = S THEN S ELSE Component(T)

\* C1: when _generate_maze has finished, the connectivity graph is connected
\* and has exactly width * height - 1 edges.
C1_PerfectMaze ==
    pc = "done" =>
        /\ Component({start}) = AllCells
        /\ Cardinality(Edges) = width * height - 1

\* A finished 3 x 2 or larger maze, which has dead ends to backtrack from.
C1_Witness == pc = "done" /\ width >= 3 /\ height >= 2 /\ Cardinality(Edges) >= 5

\* Every shared edge has a wall on both of its sides or on neither.
WallSymmetric ==
    \A a \in AllCells : \A b \in Around(a) :
        walls[a][Toward(a, b)] = walls[b][Toward(b, a)]

\* C2: at the start of every iteration of the generation loop and in the
\* finished maze, a cell has a wall toward a grid neighbour exactly when the
\* neighbour has a wall toward it.
C2_WallSymmetry == pc \in {"loop", "done"} => WallSymmetric

\* The loop is running and has carved a passage.
C2_Witness ==
    /\ pc = "loop"
    /\ Len(stack) >= 2
    /\ Edges # {}

\* C9 as claimed: in every constructed maze, 1 x 1 included, no cell has both
\* flags, is_start is true only on start and is_end only on end.
C9_Original ==
    pc = "done" =>
        \A c \in AllCells :
            /\ ~(is_start[c] /\ is_end[c])
            /\ is_start[c] => c = start
            /\ is_end[c] => c = end

\* C9 amended: in every constructed maze is_start is true on the start cell
\* alone and is_end on the end cell alone; no cell has both flags when the
\* maze has more than one cell, and the single cell of the 1 x 1 maze has both.
C9_StartEndFlags ==
    pc = "done" =>
        /\ \A c \in AllCells : (is_start[c] <=> c = start) /\ (is_end[c] <=> c = end)
        /\ width * height > 1 => \A c \in AllCells : ~(is_start[c] /\ is_end[c])
        /\ width * height = 1 => is_start[<<0, 0>>] /\ is_end[<<0, 0>>]

\* A constructed maze of more than one cell, both flags set.
C9_Witness ==
    /\ pc = "done"
    /\ width * height > 1
    /\ is_start[start]
    /\ is_end[end]

\* C10: with width <= 0 or height <= 0 the constructor never returns: it is
\* still before _generate_maze's first statement, or it has raised.
C10_NonPositiveRaises ==
    (width <= 0 \/ height <= 0) => pc \in {"generate", "raised"}

\* The constructor has raised on a non-positive dimension.
C10_Witness == pc = "raised" /\ (width <= 0 \/ height <= 0)

\* The cells one move from a: grid-adjacent, and a has no wall toward them.
Moves(a) == {b \in Around(a) : ~walls[a][Toward(a, b)]}

\* The cells reachable from a cell of S by moves.
RECURSIVE Reachable(_)
Reachable(S) ==
    LET T == S \cup UNION {Moves(a) : a \in S}
    IN IF T = S THEN S ELSE Reachable(T)

EndReachable == end \in Reachable({start})

\* The least number of moves from a cell of `frontier` to end, k moves after
\* start; -1 when there is none.
RECURSIVE MovesToEnd(_, _, _)
MovesToEnd(frontier, seen, k) ==
    IF end \in frontier THEN k
    ELSE IF frontier = {} THEN 0 - 1
    ELSE LET next == UNION {Moves(a) : a \in frontier} \ seen
         IN MovesToEnd(next, seen \cup next, k + 1)

ShortestDistance == MovesToEnd({start}, {start}, 0)

\* p leads from start to end by moves.
IsPath(p) ==
    /\ Len(p) >= 1
    /\ p[1] = start
    /\ p[Len(p)] = end
    /\ \A i \in 1..(Len(p) - 1) : p[i] \in AllCells /\ p[i + 1] \in Moves(p[i])

\* The layout has cycles: more edges than a spanning tree.
HasCycle == Cardinality(Edges) > width * height - 1

\* C3: on a connected maze (walls symmetric, every cell joined to every
\* other) each solver that has returned gave a path that starts at start,
\* ends at end and steps between grid-adjacent cells with no wall between.
C3_ValidPaths ==
    \A s \in returned :
        \/ /\ Len(path[s]) >= 1
           /\ path[s][1] = start
           /\ path[s][Len(path[s])] = end
           /\ \A i \in 1..(Len(path[s]) - 1) :
                 /\ GridAdjacent(path[s][i], path[s][i + 1])
                 /\ NoWallBetween(path[s][i], path[s][i + 1])
        \/ ~(WallSymmetric /\ Component({start}) = AllCells)

\* The three solvers have returned on a hand-built connected maze with a cycle.
C3_Witness ==
    /\ pc = "hand"
    /\ returned = Solvers
    /\ WallSymmetric
    /\ Component({start}) = AllCells
    /\ HasCycle
    /\ width * height >= 6

\* C4: whenever end is reachable from start, the path solve_bfs returned has
\* as many edges as the shortest-path distance from start to end.
C4_BfsShortest ==
    ("bfs" \in returned /\ EndReachable) =>
        /\ IsPath(path["bfs"])
        /\ Len(path["bfs"]) - 1 = ShortestDistance

\* solve_bfs has returned on a hand-built layout with a cycle whose shortest
\* path is longer than the Manhattan distance.
C4_Witness ==
    /\ pc = "hand"
    /\ "bfs" \in returned
    /\ EndReachable
    /\ HasCycle
    /\ ShortestDistance > heuristic(start, end)

\* C5: whenever end is reachable from start, the paths solve_astar and
\* solve_bfs returned have the same length, the shortest there is.
C5_AstarShortest ==
    ({"bfs", "astar"} \subseteq returned /\ EndReachable) =>
        /\ Len(path["astar"]) = Len(path["bfs"])
        /\ IsPath(path["astar"])
        /\ Len(path["astar"]) - 1 = ShortestDistance

\* Both have returned on a hand-built layout with a cycle on which the
\* heuristic underestimates.
C5_Witness ==
    /\ pc = "hand"
    /\ {"bfs", "astar"} \subseteq returned
    /\ EndReachable
    /\ HasCycle
    /\ Len(path["astar"]) - 1 > heuristic(start, end)

\* C6: a solver returns the empty path exactly when end is not reachable
\* from start by moves.
C6_EmptyIffUnreachable ==
    returned # {} =>
        LET unreachable == ~EndReachable
        IN \A s \in returned : (path[s] = <<>>) <=> unreachable

\* The three solvers have returned the empty path on a hand-built layout
\* that cuts end off from start though start has a way out.
C6_Witness ==
    /\ pc = "hand"
    /\ returned = Solvers
    /\ ~EndReachable
    /\ Cardinality(Reachable({start})) >= 3
    /\ \A s \in Solvers : path[s] = <<>>

\* C7: whenever end is reachable from start, solve_dfs returned a path from
\* start to end by moves that is at least as long as the path of solve_bfs
\* and of solve_astar.
C7_DfsNoShorter ==
    ("dfs" \in returned /\ EndReachable) =>
        /\ IsPath(path["dfs"])
        /\ "bfs" \in returned => Len(path["dfs"]) >= Len(path["bfs"])
        /\ "astar" \in returned => Len(path["dfs"]) >= Len(path["astar"])

\* The three have returned and the path of solve_dfs is strictly longer.
C7_Witness ==
    /\ returned = Solvers
    /\ EndReachable
    /\ Len(path["dfs"]) > Len(path["bfs"])
    /\ Len(path["dfs"]) > Len(path["astar"])

\* C8: when start = end, each solver that has returned gave the path [start].
C8_StartIsEnd ==
    start = end => \A s \in returned : path[s] = <<start>>

\* The three solvers have returned on the 1 x 1 maze.
C8_Witness == start = end /\ width = 1 /\ height = 1 /\ returned = Solvers
\* C11: two constructions with identical inputs produce identical wall layouts
\* in every cell: when the second construction is complete, its walls are the
\* walls of the first.
C11_Reproducible == (constructions = 2 /\ pc = "done") => walls = first_walls

\* Both constructions are complete.
C11_Witness == constructions = 2 /\ pc = "done" /\ width >= 2 /\ height >= 2
\* A step of a solver: a call, one iteration of its loop, or its return.
SolverStep == solver # "none" \/ solver' # "none"

\* C12: no solver mutates the maze: every step of solve_bfs, solve_dfs and
\* solve_astar, in any sequence of invocations, leaves the walls, visited,
\* is_start and is_end of every cell and the maze's start and end unchanged.
C12_SolversReadOnly == [][SolverStep => UNCHANGED mazeVars]_vars

\* All three solvers have run to their return on a maze with a cycle.
C12_Witness == pc = "hand" /\ returned = Solvers /\ solver = "none" /\ HasCycle
\* Some cell has not been visited yet.
SomeUnvisited == \E c \in AllCells : ~visited[c]

\* C13: for every width >= 1 and height >= 1 and every sequence of random
\* choices the generation loop terminates, and its stack is empty exactly when
\* every cell has been visited: while some cell is unvisited the stack is not
\* empty, and when the stack is empty (the loop ends) all cells are visited.
C13_GenerationTerminates ==
    /\ [](pc = "loop" /\ SomeUnvisited => stack # <<>>)
    /\ [](pc \in {"loop", "done"} /\ stack = <<>> => ~SomeUnvisited)
    /\ [](width >= 1 /\ height >= 1 => <>(pc = "done"))

\* The loop has ended on a grid where it had to backtrack, with every cell
\* visited.
C13_Witness ==
    pc = "done" /\ stack = <<>> /\ width * height >= 6 /\ ~SomeUnvisited
\* C14: at the start of every iteration of the generation loop the stack is a
\* simple path in the carved graph from the root: its bottom element is (0,0),
\* its elements are pairwise distinct and all marked visited, and every two
\* consecutive elements are grid-adjacent cells with no wall between them.
C14_StackIsPath ==
    (pc = "loop" /\ stack # <<>>) =>
        /\ stack[1] = <<0, 0>>
        /\ \A i, j \in 1..Len(stack) : i # j => stack[i] # stack[j]
        /\ \A i \in 1..Len(stack) : stack[i] \in AllCells /\ visited[stack[i]]
        /\ \A i \in 1..(Len(stack) - 1) :
              GridAdjacent(stack[i], stack[i + 1]) /\ NoWallBetween(stack[i], stack[i + 1])

\* An iteration starts after a backtrack: a visited cell is no longer on the
\* stack, and the stack still holds a path of three cells or more.
C14_Witness ==
    /\ pc = "loop"
    /\ Len(stack) >= 3
    /\ \E c \in AllCells : visited[c] /\ \A i \in 1..Len(stack) : stack[i] # c
    /\ SomeUnvisited
\* C17: generation never removes a wall on the outer boundary of the grid: in
\* every state during and after generation every cell with x = 0 has its WEST
\* wall, every cell with x = width-1 its EAST wall, every cell with y = 0 its
\* NORTH wall and every cell with y = height-1 its SOUTH wall.
C17_BoundaryWalls ==
    \A c \in AllCells :
        /\ c[1] = 0 => walls[c]["WEST"]
        /\ c[1] = width - 1 => walls[c]["EAST"]
        /\ c[2] = 0 => walls[c]["NORTH"]
        /\ c[2] = height - 1 => walls[c]["SOUTH"]

\* Generation is complete on a grid with an inner cell, and walls were removed
\* on boundary cells toward the inside.
C17_Witness ==
    /\ pc = "done"
    /\ width = 3
    /\ height = 3
    /\ ~walls[<<0, 0>>]["EAST"]
    /\ ~walls[<<2, 2>>]["NORTH"]
\* No cell occurs twice in p.
Simple(p) == \A i, j \in 1..Len(p) : i # j => p[i] # p[j]

\* C16: on every generated maze solve_bfs, solve_dfs and solve_astar return
\* the identical sequence of cells, and that sequence contains no cell twice.
C16_SolversAgree ==
    pc = "done" =>
        \A s \in returned :
            /\ path[s] # <<>>
            /\ Simple(path[s])
            /\ \A t \in returned : path[t] = path[s]

\* All three solvers have returned on a generated 3x3 maze whose path from
\* start to end is longer than the shortest one the grid allows.
C16_Witness ==
    /\ pc = "done"
    /\ returned = Solvers
    /\ solver = "none"
    /\ width = 3
    /\ height = 3
    /\ Len(path["astar"]) > 5
\* The number of cells.
NumCells == Cardinality(AllCells)

\* What bounds the iterations left to solve_bfs and solve_dfs: each one pops
\* an entry, and each push takes a cell out of the unvisited ones.
FrontierRank(vis, frontier) == 2 * Cardinality(AllCells \ vis) + Len(frontier)

\* The sum over the cells of S of their g-score in g, counting NumCells for a
\* cell without one.
RECURSIVE SumG(_, _)
SumG(g, S) ==
    IF S = {} THEN 0
    ELSE LET c == CHOOSE c \in S : TRUE
         IN (IF c \in DOMAIN g THEN g[c] ELSE NumCells) + SumG(g, S \ {c})

\* What bounds the iterations left to solve_astar: each one pops an entry,
\* and each push lowers the g-score of a cell.
AstarRank(g, h) == 2 * SumG(g, AllCells) + Len(h)

\* C15: each of solve_bfs, solve_dfs and solve_astar terminates on every wall
\* configuration, with cycles or disconnected: an invocation always reaches
\* its return, every iteration of a solver's loop lowers a natural number,
\* and every g-score solve_astar records is below the number of cells, so
\* solve_astar pushes finitely often.
C15_SolversTerminate ==
    /\ []<>(solver = "none")
    /\ [](\A c \in DOMAIN g_score : g_score[c] \in 0..(NumCells - 1))
    /\ [][(solver = "bfs" /\ solver' = "bfs") =>
             FrontierRank(bfs_visited', queue') < FrontierRank(bfs_visited, queue)]_vars
    /\ [][(solver = "dfs" /\ solver' = "dfs") =>
             FrontierRank(dfs_visited', dfs_stack') < FrontierRank(dfs_visited, dfs_stack)]_vars
    /\ [][(solver = "astar" /\ solver' = "astar") =>
             AstarRank(g_score', open_set') < AstarRank(g_score, open_set)]_vars

\* solve_astar is running on a hand-built layout with a cycle from which the
\* end cannot be reached, and has more than one entry on its heap.
C15_Witness ==
    /\ pc = "hand"
    /\ solver = "astar"
    /\ width = 3
    /\ height = 2
    /\ NoWallBetween(<<0, 0>>, <<1, 0>>)
    /\ NoWallBetween(<<1, 0>>, <<1, 1>>)
    /\ NoWallBetween(<<1, 1>>, <<0, 1>>)
    /\ NoWallBetween(<<0, 1>>, <<0, 0>>)
    /\ ~EndReachable
    /\ Len(open_set) >= 2
\* C18: after any sequence of key events the player position is inside the
\* grid; every change of position made by move_player goes from a cell to a
\* grid-adjacent cell across a side where the origin cell has no wall; and a
\* move that is out of bounds, blocked by a wall or attempted while game_over
\* is true leaves player_pos and path unchanged. (A step of the game that
\* keeps lives and is not a reset can change them only through move_player.)
C18_PlayerMoves ==
    /\ [](phase # "off" => player_pos \in AllCells)
    /\ [][(/\ phase = "run"
           /\ phase' # "reset"
           /\ lives' = lives
           /\ (player_pos' # player_pos \/ game_path' # game_path)) =>
             /\ ~game_over
             /\ player_pos' \in AllCells
             /\ GridAdjacent(player_pos, player_pos')
             /\ ~walls[player_pos][Toward(player_pos, player_pos')]
             /\ game_path' = Append(game_path, player_pos)]_vars

\* The player has moved in both directions to a cell that is not the end and
\* has a wall toward a cell of the grid.
C18_Witness ==
    /\ phase = "run"
    /\ ~game_over
    /\ Len(game_path) >= 3
    /\ player_pos[1] >= 1
    /\ player_pos[2] >= 1
    /\ \E b \in Around(player_pos) : walls[player_pos][Toward(player_pos, b)]

\* C19: in every reachable game state lives is between 0 and 3; whenever
\* game_over is true exactly one of `lives = 0` and `the player is on the end
\* cell` holds; and once game_over is true, lives, player_pos and path do not
\* change until a reset (R key).
C19_LivesAndGameOver ==
    /\ [](lives \in 0..InitialLives)
    /\ [](phase # "off" /\ game_over => ((lives = 0) # (player_pos = end)))
    /\ [][(game_over /\ phase' # "reset") =>
             UNCHANGED <<lives, player_pos, game_path>>]_vars

\* The game is over by the loss of the last life, away from the end cell, and
\* the frame check has run since.
C19_Witness ==
    /\ phase = "run"
    /\ game_over
    /\ lives = 0
    /\ player_pos # end
    /\ player_pos # start
====
